---- MODULE Spec2Model ----
(***************************************************************************)
(* Browser-page automation helpers of job-autofill-utils: the option       *)
(* matcher, the click-select flow, the type-select flow (both revisions)   *)
(* and the element-presence waiter, as state machines over a small DOM.    *)
(*                                                                         *)
(* A text is a sequence of one-character strings, so that trim(),          *)
(* toLowerCase(), === and String.prototype.includes are computed on the    *)
(* characters and are not the identity.                                    *)
(***************************************************************************)
EXTENDS Integers, Sequences, FiniteSets, TLC

\* ------------------------------------------------------------------ bounds
MaxOptions == 2
MaxAliases == 2
MaxLabels == 2
MaxTypedAliases == 1
MaxChips == 1
MaxNodes == 2
MaxCalls == 2

\* ------------------------------------------------------------------- texts
S(a) == <<a>>
S2(a, b) == <<a, b>>

\* texts the host page shows and callers pass: case variants, padded
\* variants, a text that contains another one
TextPool ==
  { S("a"), S("A"), S("b"), S2("a", "b"), S2(" ", "a"), S2("A", " ") }

\* labels and aliases as callers pass them to the type-select flow: case
\* variants, one containing another, no surrounding white space
CandidatePool == { S("A"), S2("a", "b") }

\* texts of the chips the host page shows
ChipPool == { S2("A", " "), S2("a", "b") }

\* labels and alias lists passed to the click-select flow
ClickLabelPool == { S("a"), S("b") }
ClickAliasPool == { <<>>, << S("b") >>, << S("b"), S("a") >> }

\* the containers the host page mounts, each with its role=option elements:
\* listboxes that are empty, hold one option or two, and an element that is
\* no listbox but holds an option
NodePool ==
  { [listbox |-> TRUE, options |-> <<>>],
    [listbox |-> TRUE, options |-> << S2("A", " ") >>],
    [listbox |-> TRUE, options |-> << S("b") >>],
    [listbox |-> TRUE, options |-> << S("b"), S2("A", " ") >>],
    [listbox |-> FALSE, options |-> << S("b") >>] }

SeqsUpTo(T, n) == UNION { [1..k -> T] : k \in 0..n }

toLowerCaseChar(c) ==
  CASE c = "A" -> "a"
    [] c = "B" -> "b"
    [] OTHER -> c

toLowerCase(s) == [i \in 1..Len(s) |-> toLowerCaseChar(s[i])]

RECURSIVE trimStart(_)
trimStart(s) ==
  IF s # <<>> /\ Head(s) = " " THEN trimStart(Tail(s)) ELSE s

RECURSIVE trimEnd(_)
trimEnd(s) ==
  IF s # <<>> /\ s[Len(s)] = " " THEN trimEnd(SubSeq(s, 1, Len(s) - 1)) ELSE s

trim(s) == trimEnd(trimStart(s))

\* opt.textContent.trim().toLowerCase()
Normalize(s) == toLowerCase(trim(s))

\* ---------------------------------------------------------------- variables
VARIABLES
  labelToMatch,   \* the label argument: a text; in the type-select flow a
                  \* record [isArray, value] (a string or an array of strings)
  aliases,        \* the aliases argument
  options,        \* option elements in document order, by textContent
  match,          \* findMatchingOption's result: an index of options, 0 = null
  pc,             \* position of the running operation
  \* ---- type-select flow
  revision,       \* which selectByTypingFromDropdown runs: "part_000" | "part_001"
  allowMultiple,  \* the allowMultiple argument
  triggerFound,   \* container.querySelector(triggerSelector) is an element
  triggerValue,   \* trigger.value; <<>> until written
  candidates,     \* the candidate list built by the flow
  idx,            \* position of the for-of loop in candidates
  chips,          \* the selected-item pills of the document, by textContent
  unacceptedCandidates,
  hostCommitted,  \* the host page has reacted to the current Enter
  clock,          \* milliseconds of pause elapsed since the call
  events,         \* what the flow did to the trigger and the document, in order
  typed,          \* the values written into trigger.value, in order
  checks,         \* every read of the pills: what was there, what the flow concluded
  console,        \* console.log / console.warn lines, in order
  \* ---- click-select flow and the element-presence waiter
  buttonFound,    \* container.querySelector(buttonSelector) is an element
  dom,            \* the document's containers in document order, each
                  \* [listbox, options]: role=listbox or not, its option texts
  waiter,         \* the waiter's promise: "none" | "pending" | "resolved" | "rejected"
  interval,       \* the waiter's setInterval timer is set
  elapsed,        \* Date.now() - start at the waiter's last poll, in ms
  activeDropdown, \* getActiveDropdownContainer's result: an index of dom, 0 = null
  clicks,         \* the clicks the flow performed, in order
  timeout,        \* the waiter's timeout argument, in ms
  waited,         \* the element the waiter resolved with: <<container, option>>
                  \* indices, <<0, 0>> while there is none
  phase,          \* ms gone by since the waiter's last poll (or its start)
  presentSince,   \* since when, in ms after the call, the document has held an
                  \* option element without a break; -1 while it holds none
  seenEarly,      \* the document held an option element at some moment less
                  \* than timeout ms after the call
  \* ---- the field and control setters
  op,             \* the entry point that is called
  elFound,        \* the lookup of the target element yields an element
  value,          \* el.value
  checked,        \* el.checked
  toggles,        \* the host page lets a click toggle the checkbox
  nativeSetter,   \* HTMLInputElement.prototype has a value setter
  calls,          \* the calls made so far, each with its argument and what the
                  \* element looked like before and after
  \* ---- what the caller gets
  result,         \* "none" while the operation runs; "returned" | "thrown" for
                  \* a synchronous function; "fulfilled" | "rejected" for the
                  \* promise of an async function
  \* ---- two dropdown-select calls in progress at once
  invocation,     \* per call: the entry point, whether its trigger is found,
                  \* its label, where it is, its waiter's elapsed ms (0 once
                  \* the waiter is gone), whether the host page has mounted
                  \* its dropdown, its option click
  owner           \* per container of dom: the call whose trigger opened it

matchVars == <<options, match>>
typeVars == <<revision, allowMultiple, triggerFound, triggerValue, candidates,
              idx, chips, unacceptedCandidates, hostCommitted, clock, events,
              typed, checks>>
waitVars == <<timeout, waited, phase, presentSince, seenEarly>>
clickVars == <<buttonFound, dom, waiter, interval, elapsed, activeDropdown, clicks,
               waitVars>>
setterVars == <<op, elFound, value, checked, toggles, nativeSetter, calls>>
overlapVars == <<invocation, owner>>
vars == <<labelToMatch, aliases, pc, console, result, matchVars, typeVars, clickVars,
          setterVars, overlapVars>>

\* ------------------------------------------------------ findMatchingOption
\* the last such index instead
FindLast(opts, norm) ==
  LET hits == { i \in 1..Len(opts) : Normalize(opts[i]) = norm }
  IN IF hits = {} THEN 0 ELSE CHOOSE i \in hits : \A j \in hits : j <= i

\* Array.prototype.find: the first index whose normalized text is norm, 0 if none
Find(opts, norm) ==
  LET hits == { i \in 1..Len(opts) : Normalize(opts[i]) = norm }
  IN IF hits = {} THEN 0 ELSE CHOOSE i \in hits : \A j \in hits : i <= j

\* the alias loop: for (const alias of aliases) { match = find; if (match) break }
RECURSIVE AliasLoopNoBreak(_, _, _)
AliasLoopNoBreak(opts, als, m) ==
  IF als = <<>> THEN m
  ELSE AliasLoopNoBreak(opts, Tail(als), Find(opts, Normalize(Head(als))))

RECURSIVE AliasLoop(_, _, _)
AliasLoop(opts, als, m) ==
  IF als = <<>> THEN m
  ELSE LET found == Find(opts, Normalize(Head(als)))
       IN IF found # 0 THEN found ELSE AliasLoop(opts, Tail(als), found)

findMatchingOption(opts, label, als) ==
  LET direct == Find(opts, Normalize(label))
  IN IF direct = 0 THEN AliasLoop(opts, als, direct) ELSE direct

\* -------------------------------------------------- specification SpecMatch
TypeAtRest ==
  /\ allowMultiple = FALSE
  /\ triggerFound = FALSE
  /\ triggerValue = <<>>
  /\ candidates = <<>>
  /\ idx = 0
  /\ chips = <<>>
  /\ unacceptedCandidates = <<>>
  /\ hostCommitted = FALSE
  /\ clock = 0
  /\ events = <<>>
  /\ typed = <<>>
  /\ checks = <<>>

TypeIdle ==
  /\ revision = "part_001"
  /\ TypeAtRest

ClickIdle ==
  /\ buttonFound = FALSE
  /\ dom = <<>>
  /\ waiter = "none"
  /\ interval = FALSE
  /\ elapsed = 0
  /\ activeDropdown = 0
  /\ clicks = <<>>
  /\ timeout = 0
  /\ waited = << 0, 0 >>
  /\ phase = 0
  /\ presentSince = -1
  /\ seenEarly = FALSE

\* no second call: nothing of the overlap is in use
OverlapIdle ==
  /\ invocation = <<>>
  /\ owner = <<>>

SetterIdle ==
  /\ op = "none"
  /\ elFound = FALSE
  /\ value = <<>>
  /\ checked = FALSE
  /\ toggles = FALSE
  /\ nativeSetter = FALSE
  /\ calls = <<>>

MatchInit ==
  /\ OverlapIdle
  /\ TypeIdle
  /\ ClickIdle
  /\ SetterIdle
  /\ console = <<>>
  /\ labelToMatch \in TextPool
  /\ aliases \in SeqsUpTo(TextPool, MaxAliases)
  /\ options \in SeqsUpTo(TextPool, MaxOptions)
  /\ match = 0
  /\ pc = "call"
  /\ result = "none"

CallFindMatchingOption ==
  /\ pc = "call"
  /\ match' = findMatchingOption(options, labelToMatch, aliases)
  /\ pc' = "returned"
  /\ result' = "returned"
  /\ UNCHANGED <<labelToMatch, aliases, options, console, typeVars, clickVars,
                 setterVars>>
  /\ UNCHANGED overlapVars

MatchNext == CallFindMatchingOption

SpecMatch == MatchInit /\ [][MatchNext]_vars


\* ---------------------------------------------- selectByTypingFromDropdown
Settle1 == 300
Settle2 == 500
Settle2Old == 300

Ev(kind, i) == [kind |-> kind, i |-> i]
Line(level, msg, i) == [level |-> level, msg |-> msg, i |-> i]

\* a console line with the values printed after its message
LineArgs(level, msg, args) == [level |-> level, msg |-> msg, i |-> 0, args |-> args]

\* the promise of an async function: rejected when an exception leaves the
\* body, fulfilled when the body returns
asyncCompletion(thrown) == IF thrown THEN "rejected" ELSE "fulfilled"

\* String.prototype.includes
strIncludes(s, t) ==
  \E k \in 0..(Len(s) - Len(t)) : SubSeq(s, k + 1, k + Len(t)) = t

\* Array.prototype.includes
includes(arr, x) == \E k \in 1..Len(arr) : arr[k] = x

\* getCurrentPills: the pills' texts, each trimmed and lower-cased
getCurrentPills(pills) == [k \in 1..Len(pills) |-> toLowerCase(trim(pills[k]))]

\* currentPills.includes(candidate.toLowerCase())
pillsIncludeCaseSensitive(pills, candidate) ==
  includes(getCurrentPills(pills), candidate)

pillsIncludeSubstring(pills, candidate) ==
  \E k \in 1..Len(pills) :
    strIncludes(getCurrentPills(pills)[k], toLowerCase(candidate))

pillsInclude(pills, candidate) ==
  includes(getCurrentPills(pills), toLowerCase(candidate))

\* part_001 line 113: !allowMultiple && currentPills.includes(...)
skipsTyping(multi, pills, candidate) ==
  ~multi /\ pillsInclude(pills, candidate)

\* part_001 line 133: if (!allowMultiple) break
breaksWhenAddedAlways(multi) == TRUE

breaksWhenAdded(multi) == ~multi

\* part_001 lines 131-137: only a candidate that is not among the pills is pushed
pushUnacceptedAlways(list, candidate, added) == Append(list, candidate)

pushUnaccepted(list, candidate, added) ==
  IF added THEN list ELSE Append(list, candidate)

\* part_000 reads the identifier selectedLabels, which no scope binds: the
\* read throws a ReferenceError inside the try block
selectedLabelsBound == FALSE

\* part_000's try block: TRUE = "the last selected label includes the
\* candidate", FALSE = the else branch or the catch branch
lastLabelIncludes(pills, candidate) ==
  /\ selectedLabelsBound
  /\ pills # <<>>
  /\ strIncludes(toLowerCase(pills[Len(pills)]), toLowerCase(candidate))

\* Array.isArray(labelToMatch) ? labelToMatch : [labelToMatch]
labelArray(l) == IF l.isArray THEN l.value ELSE <<l.value>>

\* part_001: [...labelArray, ...aliases]; part_000: [labelToMatch, ...aliases]
BuildCandidatesAliasesFirst(rev, l, als) ==
  IF rev = "part_001" THEN als \o labelArray(l) ELSE als \o <<l.value>>

BuildCandidates(rev, l, als) ==
  IF rev = "part_001" THEN labelArray(l) \o als ELSE <<l.value>> \o als

\* what the typeahead may commit on Enter for a typed value: a suggestion
\* whose text contains it, whatever the case and the padding
Suggestions(v) ==
  { t \in ChipPool : strIncludes(toLowerCase(t), toLowerCase(trim(v))) }

TypeInit ==
  /\ OverlapIdle
  /\ ClickIdle
  /\ options = <<>>
  /\ match = 0
  /\ revision \in {"part_000", "part_001"}
  /\ allowMultiple \in BOOLEAN
  /\ triggerFound \in BOOLEAN
  /\ labelToMatch \in
       [isArray : {FALSE}, value : CandidatePool] \cup
       (IF revision = "part_001"
        THEN [isArray : {TRUE},
              value : SeqsUpTo(CandidatePool, MaxLabels) \ {<<>>}]
        ELSE {})
  /\ aliases \in SeqsUpTo(CandidatePool, MaxTypedAliases)
  /\ chips \in SeqsUpTo(ChipPool, MaxChips)
  /\ triggerValue = <<>>
  /\ candidates = <<>>
  /\ idx = 0
  /\ unacceptedCandidates = <<>>
  /\ hostCommitted = FALSE
  /\ clock = 0
  /\ events = <<>>
  /\ typed = <<>>
  /\ checks = <<>>
  /\ console = <<>>
  /\ pc = "t_call"
  /\ SetterIdle
  /\ result = "none"

typeArgs == <<labelToMatch, aliases, matchVars, clickVars, setterVars, revision,
              allowMultiple, triggerFound>>

\* lines 100-109: the trigger is missing
TriggerNotFound ==
  /\ pc = "t_call"
  /\ ~triggerFound
  /\ console' = Append(console, LineArgs("warn", "Menu trigger not found",
                                          << "triggerSelector" >>))
  /\ pc' = "t_done"
  /\ result' = asyncCompletion(FALSE)
  /\ UNCHANGED <<typeArgs, triggerValue, candidates, idx, chips,
                 unacceptedCandidates, hostCommitted, clock, events, typed, checks>>
  /\ UNCHANGED overlapVars

\* lines 100-109: the trigger is clicked and the candidate list is built
OpenTrigger ==
  /\ pc = "t_call"
  /\ triggerFound
  /\ events' = Append(events, Ev("click", 0))
  /\ candidates' = BuildCandidates(revision, labelToMatch, aliases)
  /\ idx' = 1
  /\ pc' = "t_loop"
  /\ UNCHANGED <<typeArgs, result, triggerValue, chips, unacceptedCandidates,
                 hostCommitted, clock, typed, checks, console>>
  /\ UNCHANGED overlapVars

\* the for-of loop has no candidate left
LoopExhausted ==
  /\ pc = "t_loop"
  /\ idx > Len(candidates)
  /\ pc' = IF revision = "part_001" THEN "t_after" ELSE "t_done"
  /\ result' = IF pc' = "t_done" THEN asyncCompletion(FALSE) ELSE result
  /\ UNCHANGED <<typeArgs, triggerValue, candidates, idx, chips,
                 unacceptedCandidates, hostCommitted, clock, events, typed,
                 checks, console>>
  /\ UNCHANGED overlapVars

\* part_001 lines 112-116: single-select and the candidate is already a pill
AlreadyPresent ==
  /\ pc = "t_loop"
  /\ idx <= Len(candidates)
  /\ revision = "part_001"
  /\ skipsTyping(allowMultiple, chips, candidates[idx])
  /\ events' = Append(events, Ev("precheck", idx))
  /\ checks' = Append(checks, [i |-> idx, phase |-> "pre", pills |-> chips])
  /\ console' = Append(console, Line("log", "Already present", idx))
  /\ pc' = "t_after"
  /\ UNCHANGED <<typeArgs, result, triggerValue, candidates, idx, chips,
                 unacceptedCandidates, hostCommitted, clock, typed>>
  /\ UNCHANGED overlapVars

\* what the flow does to the trigger for one candidate, up to the first pause
TypeEventsInputFirst(i) == << Ev("input", i), Ev("value", i) >>

TypeEvents(i) == << Ev("value", i), Ev("input", i) >>

\* part_001 lines 112-122, part_000 lines 107-111: type the candidate
TypeCandidate ==
  /\ pc = "t_loop"
  /\ idx <= Len(candidates)
  /\ IF revision = "part_001"
     THEN /\ ~skipsTyping(allowMultiple, chips, candidates[idx])
          /\ events' = (Append(events, Ev("precheck", idx))) \o TypeEvents(idx)
          /\ checks' = Append(checks, [i |-> idx, phase |-> "pre", pills |-> chips])
     ELSE /\ events' = events \o TypeEvents(idx)
          /\ checks' = checks
  /\ triggerValue' = candidates[idx]
  /\ typed' = Append(typed, candidates[idx])
  /\ console' = Append(console, Line("log", "Typing candidate", idx))
  /\ hostCommitted' = FALSE
  /\ pc' = "t_await1"
  /\ UNCHANGED <<typeArgs, result, candidates, idx, chips, unacceptedCandidates, clock>>
  /\ UNCHANGED overlapVars

\* the Enter key press and release
EnterEvents(i) == << Ev("keydown", i), Ev("keyup", i) >>

\* the first pause ends (part_001 lines 122-127, part_000 lines 111-117)
PressEnter ==
  /\ pc = "t_await1"
  /\ clock' = clock + Settle1
  /\ events' = (Append(events, Ev("pause1", idx))) \o EnterEvents(idx)
  /\ pc' = "t_await2"
  /\ UNCHANGED <<typeArgs, result, triggerValue, candidates, idx, chips,
                 unacceptedCandidates, hostCommitted, typed, checks, console>>
  /\ UNCHANGED overlapVars

\* the host page commits a suggestion as a new pill while the flow pauses
\* after Enter; a host that rejects the typed value does nothing
HostCommit ==
  /\ pc = "t_await2"
  /\ ~hostCommitted
  /\ \E t \in Suggestions(triggerValue) : chips' = Append(chips, t)
  /\ hostCommitted' = TRUE
  /\ UNCHANGED <<typeArgs, result, pc, triggerValue, candidates, idx,
                 unacceptedCandidates, clock, events, typed, checks, console>>
  /\ UNCHANGED overlapVars

\* part_001 lines 127-139: the second pause ends, the pills are read again
VerifyCandidate ==
  /\ pc = "t_await2"
  /\ revision = "part_001"
  /\ clock' = clock + Settle2
  /\ events' = events \o << Ev("pause2", idx), Ev("read", idx) >>
  /\ checks' = Append(checks, [i |-> idx, phase |-> "post", pills |-> chips])
  /\ LET added == pillsInclude(chips, candidates[idx])
     IN /\ unacceptedCandidates' =
             pushUnaccepted(unacceptedCandidates, candidates[idx], added)
        /\ IF added
           THEN /\ console' = Append(console, Line("log", "Added", idx))
                /\ IF breaksWhenAdded(allowMultiple)
                   THEN pc' = "t_after" /\ idx' = idx
                   ELSE pc' = "t_loop" /\ idx' = idx + 1
           ELSE /\ console' = Append(console, Line("warn", "Candidate not accepted", idx))
                /\ pc' = "t_loop"
                /\ idx' = idx + 1
  /\ UNCHANGED <<typeArgs, result, triggerValue, candidates, chips, hostCommitted, typed>>
  /\ UNCHANGED overlapVars

\* part_000 lines 117-137: the second pause ends, the selected labels are read
VerifyCandidateOld ==
  /\ pc = "t_await2"
  /\ revision = "part_000"
  /\ clock' = clock + Settle2Old
  /\ events' = events \o << Ev("pause2", idx), Ev("read", idx) >>
  /\ checks' = Append(checks, [i |-> idx, phase |-> "post", pills |-> chips])
  /\ LET found == lastLabelIncludes(chips, candidates[idx])
     IN /\ IF found
           THEN /\ console' = Append(console, Line("log", "Last selected label", idx))
                /\ IF ~allowMultiple
                   THEN pc' = "t_done" /\ idx' = idx
                   ELSE pc' = "t_loop" /\ idx' = idx + 1
           ELSE /\ console' = Append(console,
                                     Line("warn", "No selected item appeared", idx))
                /\ pc' = "t_loop"
                /\ idx' = idx + 1
  /\ result' = IF pc' = "t_done" THEN asyncCompletion(FALSE) ELSE result
  /\ UNCHANGED <<typeArgs, triggerValue, candidates, chips, unacceptedCandidates,
                 hostCommitted, typed>>
  /\ UNCHANGED overlapVars

\* part_001 lines 141-143: the collective warning
reportLinesAlways(list) == << Line("warn", "Unaccepted candidates", 0) >>

reportLines(list) ==
  IF Len(list) > 0 THEN << Line("warn", "Unaccepted candidates", 0) >> ELSE <<>>

\* part_001 lines 140-143: after the loop
Report ==
  /\ pc = "t_after"
  /\ console' =
       (Append(console, Line("log", "Loop finished", 0))) \o
       reportLines(unacceptedCandidates)
  /\ pc' = "t_done"
  /\ result' = asyncCompletion(FALSE)
  /\ UNCHANGED <<typeArgs, triggerValue, candidates, idx, chips,
                 unacceptedCandidates, hostCommitted, clock, events, typed, checks>>
  /\ UNCHANGED overlapVars

TypeNext ==
  \/ TriggerNotFound
  \/ OpenTrigger
  \/ LoopExhausted
  \/ AlreadyPresent
  \/ TypeCandidate
  \/ PressEnter
  \/ HostCommit
  \/ VerifyCandidate
  \/ VerifyCandidateOld
  \/ Report

SpecType == TypeInit /\ [][TypeNext]_vars

TypeFairness ==
  /\ WF_vars(TriggerNotFound) /\ WF_vars(OpenTrigger) /\ WF_vars(LoopExhausted)
  /\ WF_vars(AlreadyPresent) /\ WF_vars(TypeCandidate) /\ WF_vars(PressEnter)
  /\ WF_vars(VerifyCandidate) /\ WF_vars(VerifyCandidateOld) /\ WF_vars(Report)

FairSpecType == SpecType /\ TypeFairness

\* the pauses of the flow (lines 122 and 127), where the host page's own tasks run
TypePauses == {"t_await1", "t_await2"}

\* the host page commits the suggestion of an earlier Enter key press only
\* now, during a later pause of the flow
HostCommitLate ==
  /\ pc \in TypePauses
  /\ \E k \in 1..(Len(typed) - 1) :
       \E t \in Suggestions(typed[k]) :
         /\ \A c \in 1..Len(chips) : chips[c] # t
         /\ chips' = Append(chips, t)
  /\ UNCHANGED <<typeArgs, result, pc, triggerValue, candidates, idx,
                 unacceptedCandidates, hostCommitted, clock, events, typed,
                 checks, console>>
  /\ UNCHANGED overlapVars

TypeAsyncNext == TypeNext \/ HostCommitLate

\* the type-select flow on a host page that may add the chip of an Enter key
\* press at any later pause, not only within the pause that follows it
SpecTypeAsync == TypeInit /\ [][TypeAsyncNext]_vars


\* -------------------------- selectFromDropdownOption and waitForElement
PollInterval == 100

\* line 290: the message of the Error the waiter rejects with
timeoutError(selector) == << "Timeout: Element not found", selector >>

\* line 75: what the warning prints after its message
notFoundArgs(label, als) == << label, "Aliases tried:", als >>

\* lines 53-58: the await of the waiter stands in a try block with a catch
waiterUncaught == FALSE

waiterCaught == TRUE
DefaultTimeout == 5000

\* the documents: up to MaxNodes containers in document order
Documents == SeqsUpTo(NodePool, MaxNodes)

\* container.querySelector(selector) on the document finds an option element
optionPresent(d) == \E n \in 1..Len(d) : d[n].options # <<>>

\* container.querySelector(selector): the first option element in document
\* order, << 0, 0 >> for null
querySelector(d) ==
  LET holders == { n \in 1..Len(d) : d[n].options # <<>> }
  IN IF holders = {} THEN << 0, 0 >>
     ELSE << CHOOSE n \in holders : \A m \in holders : n <= m, 1 >>

\* since when the document has held an option element, after the host page
\* changed it from d to d2 at time now
sinceAfter(d, d2, since, now) ==
  IF ~optionPresent(d2) THEN -1
  ELSE IF optionPresent(d) THEN since
  ELSE now

\* clearInterval(interval): whether the interval is still set afterwards
clearIntervalLeftRunning == TRUE

clearInterval == FALSE

\* Date.now() - start at the next poll of the interval
elapsedAtPollRestarted(prev) == 0

\* an interval twice as long
elapsedAtPollSlow(prev) == prev + 2 * PollInterval

elapsedAtPoll(prev) == prev + PollInterval

\* one poll of waitForElement: the selector first, the deadline second
\* the deadline counted as passed when it is reached
pollOutcomeAtDeadline(found, ms, limit) ==
  IF found THEN "resolved"
  ELSE IF ms >= limit THEN "rejected"
  ELSE "pending"

\* the deadline tested before the selector
pollOutcomeDeadlineFirst(found, ms, limit) ==
  IF ms > limit THEN "rejected"
  ELSE IF found THEN "resolved"
  ELSE "pending"

pollOutcome(found, ms, limit) ==
  IF found THEN "resolved"
  ELSE IF ms > limit THEN "rejected"
  ELSE "pending"

\* the first role=listbox element instead
getActiveDropdownContainerFirst(d) ==
  LET listboxes == { n \in 1..Len(d) : d[n].listbox }
  IN IF listboxes = {} THEN 0
     ELSE CHOOSE n \in listboxes : \A m \in listboxes : n <= m

\* the last element of the document, role=listbox or not
getActiveDropdownContainerAny(d) == Len(d)

\* the last role=listbox element of the document, 0 when there is none
getActiveDropdownContainer(d) ==
  LET listboxes == { n \in 1..Len(d) : d[n].listbox }
  IN IF listboxes = {} THEN 0
     ELSE CHOOSE n \in listboxes : \A m \in listboxes : m <= n

ClickInit ==
  /\ OverlapIdle
  /\ TypeIdle
  /\ labelToMatch \in ClickLabelPool
  /\ aliases \in ClickAliasPool
  /\ buttonFound \in BOOLEAN
  /\ dom \in Documents
  /\ options = <<>>
  /\ match = 0
  /\ waiter = "none"
  /\ interval = FALSE
  /\ elapsed = 0
  /\ activeDropdown = 0
  /\ clicks = <<>>
  /\ timeout = DefaultTimeout
  /\ waited = << 0, 0 >>
  /\ phase = 0
  /\ presentSince = (IF optionPresent(dom) THEN 0 ELSE -1)
  /\ seenEarly = optionPresent(dom)
  /\ console = <<>>
  /\ pc = "Idle"
  /\ SetterIdle
  /\ result = "none"

\* a click-away that closes what was opened
onFailureClickAway == << [target |-> "away", node |-> 0, option |-> 0] >>

\* lines 55-58, 62-65, 74-76: a failure branch warns and returns; it clicks
\* nothing
onFailure == <<>>

\* the open action repeated
openActionRetried ==
  << [target |-> "button", node |-> 0, option |-> 0],
     [target |-> "button", node |-> 0, option |-> 0] >>

\* button.click(), once
openAction == << [target |-> "button", node |-> 0, option |-> 0] >>

clickArgs == <<labelToMatch, aliases, typeVars, setterVars, buttonFound>>

\* lines 43-47: the button is missing
ButtonNotFound ==
  /\ pc = "Idle"
  /\ ~buttonFound
  /\ console' = Append(console, LineArgs("warn", "Dropdown button not found",
                                          << "buttonSelector" >>))
  /\ pc' = "Failed"
  /\ result' = asyncCompletion(FALSE)
  /\ UNCHANGED <<clickArgs, waitVars, matchVars, dom, waiter, interval, elapsed,
                 activeDropdown, clicks>>
  /\ UNCHANGED overlapVars

\* lines 43-50: the open action
ClickButton ==
  /\ pc = "Idle"
  /\ buttonFound
  /\ clicks' = clicks \o openAction
  /\ pc' = "Opening"
  /\ UNCHANGED <<clickArgs, waitVars, result, matchVars, console, dom, waiter, interval, elapsed,
                 activeDropdown>>
  /\ UNCHANGED overlapVars

\* lines 54, 280-283: waitForElement(optionSelector) starts its interval
StartWaiting ==
  /\ pc = "Opening"
  /\ waiter' = "pending"
  /\ interval' = TRUE
  /\ elapsed' = 0
  /\ pc' = "WaitingForOptions"
  /\ UNCHANGED <<clickArgs, waitVars, result, matchVars, console, dom, activeDropdown, clicks>>
  /\ UNCHANGED overlapVars

\* the host page mounts a container somewhere in the document
HostMount ==
  /\ pc \in {"Opening", "WaitingForOptions", "d_timer", "w_pending"}
  /\ Len(dom) < MaxNodes
  /\ \E n \in NodePool, p \in 0..Len(dom) :
       dom' = SubSeq(dom, 1, p) \o <<n>> \o SubSeq(dom, p + 1, Len(dom))
  /\ presentSince' = sinceAfter(dom, dom', presentSince, elapsed + phase)
  /\ seenEarly' = (seenEarly \/ (optionPresent(dom') /\ elapsed + phase < timeout))
  /\ UNCHANGED <<clickArgs, timeout, waited, phase, result, matchVars, pc, console, waiter, interval, elapsed,
                 activeDropdown, clicks>>
  /\ UNCHANGED overlapVars

\* the host page removes a container from the document
HostUnmount ==
  /\ pc \in {"Opening", "WaitingForOptions", "d_timer", "w_pending"}
  /\ \E p \in 1..Len(dom) :
       dom' = SubSeq(dom, 1, p - 1) \o SubSeq(dom, p + 1, Len(dom))
  /\ presentSince' = sinceAfter(dom, dom', presentSince, elapsed + phase)
  /\ seenEarly' = (seenEarly \/ (optionPresent(dom') /\ elapsed + phase < timeout))
  /\ UNCHANGED <<clickArgs, timeout, waited, phase, result, matchVars, pc, console, waiter, interval, elapsed,
                 activeDropdown, clicks>>
  /\ UNCHANGED overlapVars

\* lines 283-292: a poll that neither finds an option nor is past the deadline
PollPending ==
  /\ pc = "WaitingForOptions" /\ interval
  /\ pollOutcome(optionPresent(dom), elapsedAtPoll(elapsed), timeout) = "pending"
  /\ elapsed' = elapsedAtPoll(elapsed)
  /\ phase' = 0
  /\ UNCHANGED <<clickArgs, timeout, waited, presentSince, seenEarly, result, matchVars, pc, console, dom, waiter, interval,
                 activeDropdown, clicks>>
  /\ UNCHANGED overlapVars

\* lines 284-287: a poll finds an option; the interval is cleared, the promise
\* resolves and the flow goes on after its await
PollResolves ==
  /\ pc = "WaitingForOptions" /\ interval
  /\ pollOutcome(optionPresent(dom), elapsedAtPoll(elapsed), timeout) = "resolved"
  /\ elapsed' = elapsedAtPoll(elapsed)
  /\ interval' = clearInterval
  /\ waiter' = "resolved"
  /\ pc' = "Matching"
  /\ waited' = querySelector(dom)
  /\ phase' = 0
  /\ UNCHANGED <<clickArgs, timeout, presentSince, seenEarly, result, matchVars, console, dom, activeDropdown, clicks>>
  /\ UNCHANGED overlapVars

\* lines 288-291 and 55-58: a poll past the deadline; the interval is cleared,
\* the promise rejects, the flow warns and returns
PollRejects ==
  /\ pc = "WaitingForOptions" /\ interval
  /\ pollOutcome(optionPresent(dom), elapsedAtPoll(elapsed), timeout) = "rejected"
  /\ elapsed' = elapsedAtPoll(elapsed)
  /\ interval' = clearInterval
  /\ waiter' = "rejected"
  /\ console' = Append(console,
                       LineArgs("warn", "Timed out waiting for dropdown options",
                                << timeoutError("optionSelector") >>))
  /\ pc' = "Failed"
  /\ result' = asyncCompletion(~waiterCaught)
  /\ phase' = 0
  /\ clicks' = clicks \o onFailure
  /\ UNCHANGED <<clickArgs, timeout, waited, presentSince, seenEarly, matchVars, dom,
                 activeDropdown>>
  /\ UNCHANGED overlapVars

\* lines 61-65: no role=listbox element in the document
NoActiveDropdown ==
  /\ pc = "Matching"
  /\ getActiveDropdownContainer(dom) = 0
  /\ activeDropdown' = 0
  /\ console' = Append(console,
                       Line("warn", "No active dropdown container found", 0))
  /\ pc' = "Failed"
  /\ result' = asyncCompletion(FALSE)
  /\ clicks' = clicks \o onFailure
  /\ UNCHANGED <<clickArgs, waitVars, matchVars, dom, waiter, interval, elapsed>>
  /\ UNCHANGED overlapVars

\* lines 61-76: the options of the active container are matched; the match is
\* clicked, or the flow warns
MatchOption ==
  /\ pc = "Matching"
  /\ getActiveDropdownContainer(dom) # 0
  /\ activeDropdown' = getActiveDropdownContainer(dom)
  /\ options' = dom[activeDropdown'].options
  /\ match' = findMatchingOption(options', labelToMatch, aliases)
  /\ IF match' # 0
     THEN /\ clicks' = Append(clicks, [target |-> "option",
                                       node |-> activeDropdown', option |-> match'])
          /\ console' = Append(console, Line("log", "Dropdown options found", 0))
          /\ pc' = "Clicked"
     ELSE /\ clicks' = clicks \o onFailure
          /\ console' = console \o
               << Line("log", "Dropdown options found", 0),
                  LineArgs("warn", "Dropdown option not found",
                           notFoundArgs(labelToMatch, aliases)) >>
          /\ pc' = "Failed"
  /\ result' = asyncCompletion(FALSE)
  /\ UNCHANGED <<clickArgs, waitVars, dom, waiter, interval, elapsed>>
  /\ UNCHANGED overlapVars

ClickNext ==
  \/ ButtonNotFound
  \/ ClickButton
  \/ StartWaiting
  \/ HostMount
  \/ HostUnmount
  \/ PollPending
  \/ PollResolves
  \/ PollRejects
  \/ NoActiveDropdown
  \/ MatchOption

SpecClick == ClickInit /\ [][ClickNext]_vars

\* the callback of the waiter's interval, whatever it finds
Poll == PollPending \/ PollResolves \/ PollRejects

\* the flow's own steps run when they can: the synchronous code after a step,
\* and the callback of the 100 ms interval while the interval is set; the
\* host page owes nothing
ClickFairness ==
  /\ WF_vars(ButtonNotFound) /\ WF_vars(ClickButton) /\ WF_vars(StartWaiting)
  /\ WF_vars(Poll)
  /\ WF_vars(NoActiveDropdown) /\ WF_vars(MatchOption)

FairSpecClick == SpecClick /\ ClickFairness

\* ------------------------------------------------------------ waitForElement
\* the timeout arguments: none at all, less than one interval, one interval,
\* between two polls, a multiple of the interval
TimeoutPool == { 0, 50, 100, 250, 300 }

\* the host page acts at the time of a poll or half an interval later
HalfInterval == 50

WaitInit ==
  /\ OverlapIdle
  /\ TypeIdle
  /\ SetterIdle
  /\ labelToMatch = <<>>
  /\ aliases = <<>>
  /\ options = <<>>
  /\ match = 0
  /\ console = <<>>
  /\ result = "none"
  /\ buttonFound = FALSE
  /\ activeDropdown = 0
  /\ clicks = <<>>
  /\ dom \in Documents
  /\ timeout \in TimeoutPool
  /\ waiter = "none"
  /\ interval = FALSE
  /\ elapsed = 0
  /\ waited = << 0, 0 >>
  /\ phase = 0
  /\ presentSince = (IF optionPresent(dom) THEN 0 ELSE -1)
  /\ seenEarly = (optionPresent(dom) /\ 0 < timeout)
  /\ pc = "w_call"

WaitFrame ==
  UNCHANGED <<labelToMatch, aliases, matchVars, typeVars, setterVars, console,
              buttonFound, activeDropdown, clicks, timeout, dom, presentSince,
              seenEarly>>

\* lines 280-283: the promise is made, start is taken, the interval is set
WaitCall ==
  /\ pc = "w_call"
  /\ waiter' = "pending"
  /\ interval' = TRUE
  /\ elapsed' = 0
  /\ pc' = "w_pending"
  /\ UNCHANGED <<result, waited, phase>>
  /\ WaitFrame
  /\ UNCHANGED overlapVars

\* where a call of waitForElement is once its interval has been set; the
\* interval's callback runs for as long as the interval is set
WaitStarted == {"w_pending", "w_resolved", "w_rejected"}

\* half an interval goes by without a poll
HalfTick ==
  /\ pc = "w_pending"
  /\ phase = 0
  /\ phase' = HalfInterval
  /\ UNCHANGED <<pc, result, waiter, interval, elapsed, waited>>
  /\ WaitFrame
  /\ UNCHANGED overlapVars

\* lines 283-292: a poll that neither finds the element nor is past the deadline
WaitPollPending ==
  /\ pc \in WaitStarted /\ interval
  /\ pollOutcome(optionPresent(dom), elapsedAtPoll(elapsed), timeout) = "pending"
  /\ elapsed' = elapsedAtPoll(elapsed)
  /\ phase' = 0
  /\ UNCHANGED <<pc, result, waiter, interval, waited>>
  /\ WaitFrame
  /\ UNCHANGED overlapVars

\* lines 284-287: a poll finds the element: clearInterval, resolve(el)
WaitPollResolves ==
  /\ pc \in WaitStarted /\ interval
  /\ pollOutcome(optionPresent(dom), elapsedAtPoll(elapsed), timeout) = "resolved"
  /\ elapsed' = elapsedAtPoll(elapsed)
  /\ phase' = 0
  /\ interval' = clearInterval
  /\ waiter' = "resolved"
  /\ waited' = querySelector(dom)
  /\ result' = "fulfilled"
  /\ pc' = "w_resolved"
  /\ WaitFrame
  /\ UNCHANGED overlapVars

\* lines 288-291: a poll past the deadline: clearInterval, reject(Error)
WaitPollRejects ==
  /\ pc \in WaitStarted /\ interval
  /\ pollOutcome(optionPresent(dom), elapsedAtPoll(elapsed), timeout) = "rejected"
  /\ elapsed' = elapsedAtPoll(elapsed)
  /\ phase' = 0
  /\ interval' = clearInterval
  /\ waiter' = "rejected"
  /\ result' = "rejected"
  /\ pc' = "w_rejected"
  /\ UNCHANGED waited
  /\ WaitFrame
  /\ UNCHANGED overlapVars

WaitNext ==
  \/ WaitCall
  \/ HalfTick
  \/ HostMount
  \/ HostUnmount
  \/ WaitPollPending
  \/ WaitPollResolves
  \/ WaitPollRejects

SpecWait == WaitInit /\ [][WaitNext]_vars

WaitPoll == WaitPollPending \/ WaitPollResolves \/ WaitPollRejects

\* the call runs to its return and the interval's callback runs while the
\* interval is set; the host page owes nothing
WaitFairness == WF_vars(WaitCall) /\ WF_vars(WaitPoll)

FairSpecWait == SpecWait /\ WaitFairness

\* the host page goes on changing the document after the promise has settled
HostAfterSettle ==
  /\ pc \in {"w_resolved", "w_rejected"}
  /\ \/ /\ Len(dom) < MaxNodes
        /\ \E n \in NodePool, p \in 0..Len(dom) :
             dom' = SubSeq(dom, 1, p) \o <<n>> \o SubSeq(dom, p + 1, Len(dom))
     \/ \E p \in 1..Len(dom) :
          dom' = SubSeq(dom, 1, p - 1) \o SubSeq(dom, p + 1, Len(dom))
  /\ UNCHANGED <<labelToMatch, aliases, matchVars, typeVars, setterVars, console,
                 result, pc, buttonFound, waiter, interval, elapsed,
                 activeDropdown, clicks, waitVars>>
  /\ UNCHANGED overlapVars

SettleNext == WaitNext \/ HostAfterSettle

\* waitForElement on a page that keeps changing after the call has settled
SpecSettle == WaitInit /\ [][SettleNext]_vars

\* ------------------------------------------------------ selectDropdownByLabel
\* container.querySelectorAll(optionSelector): every option element of the
\* document in document order, each as << container, option >>
RECURSIVE querySelectorAll(_, _)
querySelectorAll(d, n) ==
  IF n > Len(d) THEN <<>>
  ELSE [i \in 1..Len(d[n].options) |-> << n, i >>] \o querySelectorAll(d, n + 1)

\* Array.prototype.find over the elements: the first whose trimmed,
\* lower-cased text is the trimmed, lower-cased label; 0 when there is none
findByLabel(d, els, label) ==
  LET hits == { k \in 1..Len(els) :
                  toLowerCase(trim(d[els[k][1]].options[els[k][2]])) =
                    toLowerCase(trim(label)) }
  IN IF hits = {} THEN 0 ELSE CHOOSE k \in hits : \A j \in hits : k <= j

DropdownInit ==
  /\ OverlapIdle
  /\ revision \in {"utils_early", "utils_late"}
  /\ TypeAtRest
  /\ SetterIdle
  /\ labelToMatch \in ClickLabelPool
  /\ aliases = <<>>
  /\ buttonFound \in BOOLEAN
  /\ dom \in Documents
  /\ options = <<>>
  /\ match = 0
  /\ waiter = "none"
  /\ interval = FALSE
  /\ elapsed = 0
  /\ activeDropdown = 0
  /\ clicks = <<>>
  /\ timeout = 0
  /\ waited = << 0, 0 >>
  /\ phase = 0
  /\ presentSince = (IF optionPresent(dom) THEN 0 ELSE -1)
  /\ seenEarly = FALSE
  /\ console = <<>>
  /\ result = "none"
  /\ pc = "d_call"

DropdownFrame ==
  UNCHANGED <<labelToMatch, aliases, typeVars, op, elFound, value, checked, toggles,
              nativeSetter, calls, buttonFound, waiter, interval, elapsed,
              activeDropdown, waitVars>>

\* lines 35-39: the button is missing
DropdownButtonNotFound ==
  /\ pc = "d_call"
  /\ ~buttonFound
  /\ console' = Append(console, LineArgs("warn", "Dropdown button not found",
                                          << "buttonSelector" >>))
  /\ pc' = "d_done"
  /\ result' = "returned"
  /\ UNCHANGED <<matchVars, dom, clicks>>
  /\ DropdownFrame
  /\ UNCHANGED overlapVars

\* lines 40-41 and 51: the button is clicked, the timer is set, the function
\* returns
DropdownClickButton ==
  /\ pc = "d_call"
  /\ buttonFound
  /\ clicks' = clicks \o openAction
  /\ pc' = "d_timer"
  /\ result' = "returned"
  /\ UNCHANGED <<matchVars, dom, console>>
  /\ DropdownFrame
  /\ UNCHANGED overlapVars

\* lines 41-51: the callback of the timer matches the label against every
\* option of the container and clicks the match, or warns
DropdownTimer ==
  /\ pc = "d_timer"
  /\ LET els == querySelectorAll(dom, 1)
         m == findByLabel(dom, els, labelToMatch)
     IN /\ options' = [k \in 1..Len(els) |-> dom[els[k][1]].options[els[k][2]]]
        /\ match' = m
        /\ IF m # 0
           THEN /\ clicks' = Append(clicks, [target |-> "option",
                                             node |-> els[m][1], option |-> els[m][2]])
                /\ console' = console
           ELSE /\ clicks' = clicks
                /\ console' = Append(console,
                                     LineArgs("warn", "Dropdown option not found",
                                              << labelToMatch >>))
  /\ pc' = "d_done"
  /\ UNCHANGED <<dom, result>>
  /\ DropdownFrame
  /\ UNCHANGED overlapVars

DropdownNext ==
  \/ DropdownButtonNotFound
  \/ DropdownClickButton
  \/ DropdownTimer
  \/ HostMount
  \/ HostUnmount

SpecDropdown == DropdownInit /\ [][DropdownNext]_vars

\* ------------------------------------------------ field and control setters
\* the revisions of the setters: the two part files, and the first and the
\* second group of definitions of utils.js
SetterRevisions == { "part_000", "part_001", "utils_early", "utils_late" }

EntryPoints ==
  { "fillInputBySelector", "fillInputByName", "setRadio", "setCheckboxBySelector",
    "setCheckboxByName", "dateSetValue", "clickButton" }

\* the values written into inputs
ValuePool == { S("a"), S2("a", "b") }

\* what one call does to the element, in order, and what it prints
Effect(did, lines) == [did |-> did, lines |-> lines]

\* `input[name="${name}"]`
nameSelector(name) == << "input[name=", name, "]" >>

\* the second group of utils.js dispatches no change event
fillEvents(rev) ==
  IF rev = "utils_late" THEN << "focus", "value", "input" >>
  ELSE << "focus", "value", "input", "change" >>

fillInputBySelector(rev, found, selector) ==
  IF found THEN Effect(fillEvents(rev), <<>>)
  ELSE Effect(<<>>, << LineArgs("warn", "Input not found", << selector >>) >>)

fillInputByName(rev, found, name) ==
  fillInputBySelector(rev, found, nameSelector(name))

setRadio(found) ==
  IF found THEN Effect(<< "click" >>, <<>>)
  ELSE Effect(<<>>, << LineArgs("warn", "Radio not found", << "name", "value" >>) >>)

clicksWhenDifferentAlways(isChecked, want) == TRUE

\* el.checked !== checked
clicksWhenDifferent(isChecked, want) == isChecked # want

setCheckboxBySelector(found, isChecked, want, selector) ==
  IF found
  THEN IF clicksWhenDifferent(isChecked, want)
       THEN Effect(<< "click" >>,
                   << Line("log", "Checkbox clicked programmatically", 0) >>)
       ELSE Effect(<<>>, <<>>)
  ELSE Effect(<<>>, << LineArgs("warn", "Checkbox not found", << selector >>) >>)

setCheckboxByName(found, isChecked, want, name) ==
  setCheckboxBySelector(found, isChecked, want, nameSelector(name))

\* if (!el) return; if (!nativeSetter) return; neither prints anything
dateSetValue(found, setter) ==
  IF ~found THEN Effect(<<>>, <<>>)
  ELSE IF ~setter THEN Effect(<<>>, <<>>)
  ELSE Effect(<< "focus", "value", "input", "change" >>, <<>>)

clickButtonWarnsAlways(rev) == TRUE

\* the second group of utils.js has no else branch
clickButtonWarns(rev) == rev # "utils_late"

clickButton(rev, found) ==
  IF found THEN Effect(<< "click" >>, <<>>)
  ELSE IF clickButtonWarns(rev)
       THEN Effect(<<>>, << LineArgs("warn", "Button not found", << "selector" >>) >>)
       ELSE Effect(<<>>, <<>>)

didIncludes(did, kind) == \E k \in 1..Len(did) : did[k] = kind

SetterInit ==
  /\ OverlapIdle
  /\ revision \in SetterRevisions
  /\ TypeAtRest
  /\ ClickIdle
  /\ labelToMatch = <<>>
  /\ aliases = <<>>
  /\ options = <<>>
  /\ match = 0
  /\ console = <<>>
  /\ result = "none"
  /\ pc = "s_ready"
  /\ op \in EntryPoints
  /\ elFound \in BOOLEAN
  /\ value \in { <<>>, S("a") }
  /\ checked \in BOOLEAN
  /\ toggles \in BOOLEAN
  /\ nativeSetter \in BOOLEAN
  /\ calls = <<>>

\* the element after the call: a written value is the argument, a click on a
\* checkbox or radio changes el.checked when the host page lets it
Apply(e, arg, completion) ==
  /\ Len(calls) < MaxCalls
  /\ value' = (IF didIncludes(e.did, "value") THEN arg ELSE value)
  /\ checked' = (IF didIncludes(e.did, "click") /\ toggles
                 THEN (IF op = "setRadio" THEN TRUE ELSE ~checked)
                 ELSE checked)
  /\ calls' = Append(calls, [arg |-> arg, did |-> e.did, lines |-> e.lines,
                             valueBefore |-> value, checkedBefore |-> checked,
                             valueAfter |-> value', checkedAfter |-> checked'])
  /\ console' = console \o e.lines
  /\ result' = completion
  /\ UNCHANGED <<labelToMatch, aliases, pc, matchVars, typeVars, clickVars, op,
                 elFound, toggles, nativeSetter>>

CallFillInputBySelector ==
  /\ pc = "s_ready" /\ op = "fillInputBySelector"
  /\ \E v \in ValuePool :
       Apply(fillInputBySelector(revision, elFound, "selector"), v, "returned")
  /\ UNCHANGED overlapVars

CallFillInputByName ==
  /\ pc = "s_ready" /\ op = "fillInputByName"
  /\ \E v \in ValuePool :
       Apply(fillInputByName(revision, elFound, "name"), v, "returned")
  /\ UNCHANGED overlapVars

CallSetRadio ==
  /\ pc = "s_ready" /\ op = "setRadio"
  /\ Apply(setRadio(elFound), TRUE, "returned")
  /\ UNCHANGED overlapVars

CallSetCheckboxBySelector ==
  /\ pc = "s_ready" /\ op = "setCheckboxBySelector"
  /\ \E want \in BOOLEAN :
       Apply(setCheckboxBySelector(elFound, checked, want, "selector"), want,
             "returned")
  /\ UNCHANGED overlapVars

CallSetCheckboxByName ==
  /\ pc = "s_ready" /\ op = "setCheckboxByName"
  /\ \E want \in BOOLEAN :
       Apply(setCheckboxByName(elFound, checked, want, "name"), want, "returned")
  /\ UNCHANGED overlapVars

CallDateSetValue ==
  /\ pc = "s_ready" /\ op = "dateSetValue"
  /\ \E v \in ValuePool :
       Apply(dateSetValue(elFound, nativeSetter), v, asyncCompletion(FALSE))
  /\ UNCHANGED overlapVars

CallClickButton ==
  /\ pc = "s_ready" /\ op = "clickButton"
  /\ Apply(clickButton(revision, elFound), TRUE, "returned")
  /\ UNCHANGED overlapVars

SetterNext ==
  \/ CallFillInputBySelector
  \/ CallFillInputByName
  \/ CallSetRadio
  \/ CallSetCheckboxBySelector
  \/ CallSetCheckboxByName
  \/ CallDateSetValue
  \/ CallClickButton

SpecSetters == SetterInit /\ [][SetterNext]_vars

\* ---------------------------------------------------------- every entry point
EntryInit == TypeInit \/ ClickInit \/ DropdownInit \/ SetterInit \/ WaitInit

EntryNext == TypeNext \/ ClickNext \/ DropdownNext \/ SetterNext \/ WaitNext

SpecEntry == EntryInit /\ [][EntryNext]_vars

\* ----------------------------------------- two dropdown-select calls at once
\* the two calls, each for a dropdown of its own
Invocations == {1, 2}

DropdownEntryPoints == {"selectFromDropdownOption", "selectDropdownByLabel"}

\* what a trigger's open action makes the host page mount: a role=listbox
\* container with its options
OpenedPool == { n \in NodePool : n.listbox /\ n.options # <<>> }

OverlapInit ==
  /\ TypeIdle
  /\ ClickIdle
  /\ SetterIdle
  /\ labelToMatch = <<>>
  /\ aliases = <<>>
  /\ options = <<>>
  /\ match = 0
  /\ console = <<>>
  /\ result = "none"
  /\ pc = "overlap"
  /\ owner = <<>>
  /\ invocation \in [Invocations ->
                       [entry : DropdownEntryPoints, button : BOOLEAN,
                        labelToMatch : ClickLabelPool, pc : {"Idle"},
                        elapsed : {0}, mounted : {FALSE}, click : {<<>>}]]

OverlapFrame ==
  UNCHANGED <<labelToMatch, aliases, pc, result, matchVars, typeVars, setterVars,
              buttonFound, waiter, interval, elapsed, activeDropdown, clicks,
              waitVars>>

\* the click of an option by a call: the container and option clicked, whose
\* trigger opened that container, and whose containers the document held
OptionClick(n, o) ==
  [node |-> n, option |-> o, owner |-> owner[n], document |-> owner]

\* part_001 lines 43-54, utils.js lines 35-41: the trigger is looked up; if it
\* is there it is clicked and the waiter's interval (the 300 ms timer) is set
OverlapCall(i) ==
  /\ invocation[i].pc = "Idle"
  /\ LET byLabel == invocation[i].entry = "selectDropdownByLabel"
     IN IF invocation[i].button
        THEN /\ invocation' = [invocation EXCEPT
                   ![i].pc = IF byLabel THEN "d_timer" ELSE "WaitingForOptions"]
             /\ console' = console
        ELSE /\ invocation' = [invocation EXCEPT
                   ![i].pc = IF byLabel THEN "d_done" ELSE "Failed"]
             /\ console' = Append(console, Line("warn", "Dropdown button not found", i))
  /\ UNCHANGED <<dom, owner>>
  /\ OverlapFrame

\* the host page mounts the dropdown a clicked trigger opens, after the
\* containers the document already holds
HostOpens(i) ==
  /\ invocation[i].pc # "Idle"
  /\ invocation[i].button
  /\ ~invocation[i].mounted
  /\ \E n \in OpenedPool : dom' = Append(dom, n)
  /\ owner' = Append(owner, i)
  /\ invocation' = [invocation EXCEPT ![i].mounted = TRUE]
  /\ UNCHANGED console
  /\ OverlapFrame

\* the host page unmounts a dropdown in which an option has been clicked
HostCloses(n) ==
  /\ n \in 1..Len(dom)
  /\ \E i \in Invocations :
       /\ invocation[i].click # <<>>
       /\ invocation[i].click[1].owner = owner[n]
  /\ dom' = SubSeq(dom, 1, n - 1) \o SubSeq(dom, n + 1, Len(dom))
  /\ owner' = SubSeq(owner, 1, n - 1) \o SubSeq(owner, n + 1, Len(owner))
  /\ UNCHANGED <<invocation, console>>
  /\ OverlapFrame

\* part_001 lines 283-292: a poll of a call's waiter that neither finds an
\* option in the document nor is past the deadline
OverlapPollPending(i) ==
  /\ invocation[i].entry = "selectFromDropdownOption"
  /\ invocation[i].pc = "WaitingForOptions"
  /\ pollOutcome(optionPresent(dom), elapsedAtPoll(invocation[i].elapsed),
                 DefaultTimeout) = "pending"
  /\ invocation' = [invocation EXCEPT ![i].elapsed = elapsedAtPoll(@)]
  /\ UNCHANGED <<dom, owner, console>>
  /\ OverlapFrame

\* part_001 lines 288-291 and 55-58: a poll past the deadline; the call warns
\* and returns
OverlapPollRejects(i) ==
  /\ invocation[i].entry = "selectFromDropdownOption"
  /\ invocation[i].pc = "WaitingForOptions"
  /\ pollOutcome(optionPresent(dom), elapsedAtPoll(invocation[i].elapsed),
                 DefaultTimeout) = "rejected"
  /\ invocation' = [invocation EXCEPT ![i].elapsed = 0, ![i].pc = "Failed"]
  /\ console' = Append(console,
                       Line("warn", "Timed out waiting for dropdown options", i))
  /\ UNCHANGED <<dom, owner>>
  /\ OverlapFrame

\* part_001 lines 284-287 and 61-76: a poll finds an option in the document;
\* the call goes on after its await, takes the last listbox, matches in it and
\* clicks the match, or warns
OverlapMatch(i) ==
  /\ invocation[i].entry = "selectFromDropdownOption"
  /\ invocation[i].pc = "WaitingForOptions"
  /\ pollOutcome(optionPresent(dom), elapsedAtPoll(invocation[i].elapsed),
                 DefaultTimeout) = "resolved"
  /\ LET active == getActiveDropdownContainer(dom)
         m == IF active = 0 THEN 0
              ELSE findMatchingOption(dom[active].options,
                                      invocation[i].labelToMatch, <<>>)
     IN IF active = 0
        THEN /\ invocation' = [invocation EXCEPT ![i].elapsed = 0, ![i].pc = "Failed"]
             /\ console' = Append(console,
                                  Line("warn", "No active dropdown container found", i))
        ELSE IF m # 0
        THEN /\ invocation' = [invocation EXCEPT
                                  ![i].elapsed = 0,
                                  ![i].pc = "Clicked",
                                  ![i].click = << OptionClick(active, m) >>]
             /\ console' = Append(console, Line("log", "Dropdown options found", i))
        ELSE /\ invocation' = [invocation EXCEPT ![i].elapsed = 0, ![i].pc = "Failed"]
             /\ console' = console \o
                  << Line("log", "Dropdown options found", i),
                     Line("warn", "Dropdown option not found", i) >>
  /\ UNCHANGED <<dom, owner>>
  /\ OverlapFrame

\* utils.js lines 41-51: the callback of a call's 300 ms timer matches the
\* label against every option of the document and clicks the match, or warns
OverlapTimer(i) ==
  /\ invocation[i].entry = "selectDropdownByLabel"
  /\ invocation[i].pc = "d_timer"
  /\ LET els == querySelectorAll(dom, 1)
         m == findByLabel(dom, els, invocation[i].labelToMatch)
     IN IF m # 0
        THEN /\ invocation' = [invocation EXCEPT
                                  ![i].pc = "d_done",
                                  ![i].click = << OptionClick(els[m][1], els[m][2]) >>]
             /\ console' = console
        ELSE /\ invocation' = [invocation EXCEPT ![i].pc = "d_done"]
             /\ console' = Append(console, Line("warn", "Dropdown option not found", i))
  /\ UNCHANGED <<dom, owner>>
  /\ OverlapFrame

OverlapNext ==
  \/ \E i \in Invocations : OverlapCall(i)
  \/ \E i \in Invocations : HostOpens(i)
  \/ \E n \in 1..MaxNodes : HostCloses(n)
  \/ \E i \in Invocations : OverlapPollPending(i)
  \/ \E i \in Invocations : OverlapPollRejects(i)
  \/ \E i \in Invocations : OverlapMatch(i)
  \/ \E i \in Invocations : OverlapTimer(i)

\* two calls of the dropdown-select entry points, the second started at any
\* moment of the first
SpecOverlap == OverlapInit /\ [][OverlapNext]_vars

\* ------------------------------------------------------------------ claims
MinOf(X) == CHOOSE i \in X : \A j \in X : i <= j

LabelHits == { i \in 1..Len(options) : Normalize(options[i]) = Normalize(labelToMatch) }
AliasHits(j) == { i \in 1..Len(options) : Normalize(options[i]) = Normalize(aliases[j]) }
MatchingAliases == { j \in 1..Len(aliases) : AliasHits(j) # {} }

\* C1: findMatchingOption returns the first option (document order) whose
\* trimmed, lower-cased text equals the trimmed, lower-cased label, even when
\* an option matching an alias comes earlier; otherwise the first option
\* matching the first alias (alias order) that matches any option; otherwise
\* null.
C1_OptionMatcher ==
  pc = "returned" =>
    IF LabelHits # {} THEN match = MinOf(LabelHits)
    ELSE IF MatchingAliases # {}
         THEN match = MinOf(AliasHits(MinOf(MatchingAliases)))
         ELSE match = 0

\* the label is matched by the second option while the first option matches
\* only an alias, and the second option is what came back
C1_Witness ==
  /\ pc = "returned"
  /\ Len(options) >= 2
  /\ 1 \notin LabelHits
  /\ 2 \in LabelHits
  /\ \E j \in 1..Len(aliases) : 1 \in AliasHits(j)
  /\ match = 2


\* ----------------------------------------------- claims, type-select flow
\* the candidate appears, whatever the case, in the Selected-Chip Set as the
\* chip reader reports it (each pill's text without surrounding white space)
ChipSetHas(candidate, pills) ==
  \E k \in 1..Len(pills) : toLowerCase(trim(pills[k])) = toLowerCase(candidate)

\* some pill's text contains the candidate, whatever the case
ChipContains(candidate, pills) ==
  \E k \in 1..Len(pills) : strIncludes(toLowerCase(pills[k]), toLowerCase(candidate))

\* the target labels in the order given, and the candidate list they define
TargetLabels == IF labelToMatch.isArray THEN labelToMatch.value ELSE <<labelToMatch.value>>
ExpectedCandidates == TargetLabels \o aliases

IsPost(c) == c.phase = "post"
PostChecks == SelectSeq(checks, IsPost)
EventsOfKind(kind) == LET Is(e) == e.kind = kind IN SelectSeq(events, Is)
LinesWith(msg) == LET Is(l) == l.msg = msg IN SelectSeq(console, Is)
Running == pc \in {"t_call", "t_loop", "t_await1", "t_await2", "t_after", "t_done"}
Current == Running /\ revision = "part_001" /\ triggerFound

\* C2: single-select and the (first) target label is among the pills when the
\* flow starts: the flow ends without writing trigger.value, without any input
\* event or Enter keydown/keyup, and with no unaccepted candidate recorded.
C2_ShortCircuit ==
  ( /\ Current /\ ~allowMultiple
    /\ checks # <<>>
    /\ ChipSetHas(TargetLabels[1], checks[1].pills) )
  => /\ pc \in {"t_after", "t_done"}
     /\ typed = <<>>
     /\ triggerValue = <<>>
     /\ \A k \in 1..Len(events) :
          events[k].kind \notin {"value", "input", "keydown", "keyup"}
     /\ unacceptedCandidates = <<>>

\* the label "A" was passed while the pill reads "A ": the flow is over and
\* nothing was typed
C2_Witness ==
  /\ Current /\ ~allowMultiple
  /\ pc = "t_done"
  /\ TargetLabels[1] = S("A")
  /\ chips = << S2("A", " ") >>
  /\ typed = <<>>
  /\ LinesWith("Already present") # <<>>

\* the candidates whose post-commit read did not show them
RejectedAttempts ==
  LET posts == PostChecks
  IN { k \in 1..Len(posts) :
         ~ChipSetHas(ExpectedCandidates[posts[k].i], posts[k].pills) }

C4_SingleSelectStop ==
  (Running /\ triggerFound /\ ~allowMultiple)
  => LET posts == PostChecks
         shown == { k \in 1..Len(posts) :
                      ChipSetHas(ExpectedCandidates[posts[k].i], posts[k].pills) }
     IN /\ \A k \in shown :
             /\ Len(typed) = posts[k].i
             /\ \A e \in 1..Len(events) : events[e].i <= posts[k].i
        /\ Cardinality(shown) <= 1

\* C5: an alias is typed only if some target label attempted before it was not
\* confirmed among the pills, with multi-select enabled or disabled.
C5_AliasesAreFallbacks ==
  Current
  => LET posts == PostChecks
     IN \A j \in 1..Len(typed) :
          j > Len(TargetLabels)
          => \E k \in 1..Len(posts) :
               /\ posts[k].i <= Len(TargetLabels)
               /\ ~ChipSetHas(ExpectedCandidates[posts[k].i], posts[k].pills)

\* the unaccepted list the reads call for: the attempted candidates, in
\* attempt order, whose post-commit read did not show them
RECURSIVE NotShown(_)
NotShown(posts) ==
  IF posts = <<>> THEN <<>>
  ELSE LET c == Head(posts)
       IN (IF ChipSetHas(ExpectedCandidates[c.i], c.pills)
           THEN <<>> ELSE << ExpectedCandidates[c.i] >>) \o NotShown(Tail(posts))

WarningLines == LinesWith("Unaccepted candidates")

UnacceptedReport ==
  /\ unacceptedCandidates = NotShown(PostChecks)
  /\ pc # "t_done" => WarningLines = <<>>
  /\ pc = "t_done" =>
       /\ Len(WarningLines) <= 1
       /\ Len(WarningLines) = 1 <=> unacceptedCandidates # <<>>
       /\ WarningLines # <<>> => console[Len(console)].msg = "Unaccepted candidates"

\* C6 as stated: the unaccepted list is exactly the attempted candidates not
\* shown at their post-commit read, in attempt order; the collective warning
\* is emitted once, after the candidates are exhausted, iff the list is not
\* empty.
C6_WarningAfterExhaustion ==
  Current
  => /\ UnacceptedReport
     /\ WarningLines # <<>> => Len(typed) = Len(ExpectedCandidates)

\* C6 amended: the same list; the collective warning is emitted once, after
\* the loop has ended (candidates exhausted or single-select stop), iff the
\* list is not empty.
C6_UnacceptedReport == Current => UnacceptedReport

\* single-select: the first candidate was not shown, the flow stopped before
\* the last candidate was typed, and the warning was still emitted
C6_Witness ==
  /\ Current /\ pc = "t_done"
  /\ unacceptedCandidates # <<>>
  /\ Len(typed) < Len(ExpectedCandidates)
  /\ Len(WarningLines) = 1


\* is p a prefix of q
IsPrefix(p, q) == Len(p) <= Len(q) /\ p = SubSeq(q, 1, Len(p))

\* C7: in every invocation the values written into the trigger are a prefix of
\* the target labels in the order given followed by the aliases in the order
\* given: each list position is typed at most once, none is skipped, no other
\* value is typed, the attempts are at most the candidates, and the flow ends.
C7_CandidateOrder ==
  /\ [](Running /\ triggerFound =>
          /\ IsPrefix(typed, ExpectedCandidates)
          /\ EventsOfKind("value") = [i \in 1..Len(typed) |-> Ev("value", i)]
          /\ triggerValue = (IF typed = <<>> THEN <<>> ELSE typed[Len(typed)]))
  /\ <>(pc = "t_done")

\* two target labels and an alias, all three typed, in that order
C7_Witness ==
  /\ Running /\ triggerFound /\ pc = "t_done"
  /\ Len(TargetLabels) = 2 /\ Len(aliases) = 1
  /\ TargetLabels[1] # TargetLabels[2] /\ aliases[1] # TargetLabels[2]
  /\ typed = << TargetLabels[1], TargetLabels[2], aliases[1] >>

\* the steps of one attempt, in the order of the claim
StepKinds == << "value", "input", "pause1", "keydown", "keyup", "pause2", "read" >>
IsStep(e) == e.kind \in { StepKinds[k] : k \in 1..Len(StepKinds) }
Steps == SelectSeq(events, IsStep)

\* C8: for each attempted candidate the flow sets the trigger value, dispatches
\* input, pauses, dispatches Enter keydown then keyup, pauses, re-reads the
\* pills, strictly in this order, and nothing is done for the next candidate
\* before the re-read of the current one.
C8_StepOrder ==
  (Running /\ triggerFound)
  => /\ LET steps == Steps
        IN \A k \in 1..Len(steps) :
             steps[k] = Ev(StepKinds[((k - 1) % 7) + 1], ((k - 1) \div 7) + 1)
     /\ \A a \in 1..(Len(events) - 1) : events[a].i <= events[a + 1].i

\* two candidates went through all their steps
C8_Witness ==
  /\ Running /\ triggerFound
  /\ pc = "t_done"
  /\ Len(Steps) = 14
  /\ Steps[7] = Ev("read", 1) /\ Steps[8] = Ev("value", 2)

\* what the flow concluded at its checks, as its log lines show
TreatedAsPresent(k) ==
  IF checks[k].phase = "pre"
  THEN \E l \in 1..Len(console) :
         console[l] = Line("log", "Already present", checks[k].i)
  ELSE \E l \in 1..Len(console) :
         console[l] = Line("log", "Added", checks[k].i)

\* the checks whose conclusion is in the log: the single-select check before
\* typing and every post-commit check
Concluded(k) == checks[k].phase = "post" \/ ~allowMultiple

\* C9 as stated: at the check before typing and at the post-commit check a
\* candidate is treated as present whenever some pill's text matches it
\* whatever the case, by equality or by containing it as a substring.
C9_SubstringMatch ==
  Current
  => \A k \in 1..Len(checks) :
       (Concluded(k) /\ ChipContains(ExpectedCandidates[checks[k].i], checks[k].pills))
       => TreatedAsPresent(k)

\* C9 amended: at both checks a candidate is treated as present exactly when
\* some pill's text, trimmed and lower-cased, equals the lower-cased
\* candidate; a pill that only contains the candidate does not count.
C9_ExactMatch ==
  Current
  => \A k \in 1..Len(checks) :
       Concluded(k)
       => (TreatedAsPresent(k)
             <=> ChipSetHas(ExpectedCandidates[checks[k].i], checks[k].pills))

\* the candidate "A" was confirmed by the pill "A " at the post-commit check
\* although the pill "ab" alone had not stopped the flow before typing
C9_Witness ==
  /\ Current /\ ~allowMultiple
  /\ Len(checks) = 2
  /\ ExpectedCandidates[1] = S("A")
  /\ checks[1].pills = << S2("a", "b") >>
  /\ checks[2].pills = << S2("a", "b"), S2("A", " ") >>
  /\ TreatedAsPresent(2) /\ ~TreatedAsPresent(1)


\* -------------------------------------------- claims, click-select flow
Terminal == {"Clicked", "Failed"}

\* the arrows of the state machine
Arrows ==
  { <<"Idle", "Opening">>, <<"Idle", "Failed">>,
    <<"Opening", "WaitingForOptions">>,
    <<"WaitingForOptions", "Matching">>, <<"WaitingForOptions", "Failed">>,
    <<"Matching", "Clicked">>, <<"Matching", "Failed">> }

\* C10: every invocation of selectFromDropdownOption moves only along
\* Idle -> Opening -> WaitingForOptions -> Matching -> Clicked|Failed, with
\* jumps to Failed from Idle, WaitingForOptions and Matching; it never goes
\* back, a terminal state is never left, and whatever the host page does it
\* reaches Clicked or Failed: it does not stay in WaitingForOptions.
C10_ClickStateMachine ==
  /\ [][(pc' # pc) => (<< pc, pc' >> \in Arrows)]_vars
  /\ [][(pc \in Terminal) => (pc' = pc)]_vars
  /\ <>(pc \in Terminal)
  /\ [](pc = "WaitingForOptions" => <>(pc # "WaitingForOptions"))

\* no option ever showed up: the waiter gave up at its first poll past the
\* deadline and the flow is in Failed
C10_Witness ==
  /\ pc = "Failed"
  /\ waiter = "rejected"
  /\ elapsed = DefaultTimeout + PollInterval
  /\ clicks = << [target |-> "button", node |-> 0, option |-> 0] >>

\* the last role=listbox container of the document, in document order
IsActiveSurface(n) ==
  /\ n \in 1..Len(dom)
  /\ dom[n].listbox
  /\ \A m \in (n + 1)..Len(dom) : ~dom[m].listbox

OptionClicks == { k \in 1..Len(clicks) : clicks[k].target = "option" }

\* the Option Matcher's answer over the options the flow read: the index of
\* the option, 0 for none
MatcherAnswer ==
  IF LabelHits # {} THEN MinOf(LabelHits)
  ELSE IF MatchingAliases # {} THEN MinOf(AliasHits(MinOf(MatchingAliases)))
  ELSE 0

EndedAsTimeout ==
  /\ pc = "Failed"
  /\ console # <<>>
  /\ console[Len(console)] =
       [level |-> "warn", msg |-> "Timed out waiting for dropdown options", i |-> 0,
        args |-> << << "Timeout: Element not found", "optionSelector" >> >>]
  /\ OptionClicks = {}
  /\ activeDropdown = 0
  /\ result = "fulfilled"

\* C12, as stated: if after the click on the trigger no option element
\* appears before the waiter's deadline of 5000 ms, the flow ends in Failed
\* with the waiter's warning, no option click, no Active Surface resolved and
\* a promise that does not reject.
C12_NothingBeforeDeadline ==
  (pc \in Terminal /\ buttonFound /\ ~seenEarly) => EndedAsTimeout

\* C12, amended: if no option element is present at any poll of the waiter,
\* the last of which is its first poll more than 5000 ms after the call, the
\* flow ends in Failed with the waiter's warning, no option click, no Active
\* Surface resolved and a promise that does not reject; an option that is
\* present at a poll, that last one included, takes the flow to Matching.
C12_NothingAtAnyPoll ==
  /\ [](waiter = "rejected" =>
         (EndedAsTimeout /\ elapsed = DefaultTimeout + PollInterval))
  /\ [][(pc = "WaitingForOptions" /\ pc' # pc) =>
          IF optionPresent(dom)
          THEN waiter' = "resolved" /\ pc' = "Matching"
          ELSE waiter' = "rejected" /\ elapsed' > timeout /\ elapsed >= timeout]_vars

\* the waiter timed out on a document that holds a listbox without options:
\* the Active Surface was there to resolve and was left alone
C12_Witness ==
  /\ waiter = "rejected"
  /\ ~seenEarly
  /\ getActiveDropdownContainer(dom) # 0
  /\ activeDropdown = 0
  /\ result = "fulfilled"
  /\ Len(console) = 1

\* ------------------------------------------------- claims, every entry point
\* one warning and nothing else on the console, printed with what was looked up
OnlyWarns(lines, msg) ==
  /\ Len(lines) = 1
  /\ lines[1].level = "warn"
  /\ lines[1].msg = msg
  /\ lines[1].args # <<>>

NotFoundMessage ==
  [fillInputBySelector |-> "Input not found", fillInputByName |-> "Input not found",
   setRadio |-> "Radio not found", setCheckboxBySelector |-> "Checkbox not found",
   setCheckboxByName |-> "Checkbox not found", dateSetValue |-> "Element not found",
   clickButton |-> "Button not found"]

\* the call did nothing to the element
Untouched(c) ==
  /\ c.did = <<>>
  /\ c.valueAfter = c.valueBefore
  /\ c.checkedAfter = c.checkedBefore

\* the two selection flows on a missing trigger: one warning, and no click,
\* no event, no value written, no pause, no poll
FlowsStopOnMissingTrigger ==
  /\ (pc = "t_done" /\ ~triggerFound) =>
       /\ OnlyWarns(console, "Menu trigger not found")
       /\ events = <<>> /\ typed = <<>> /\ checks = <<>> /\ clock = 0
       /\ triggerValue = <<>> /\ result = "fulfilled"
  /\ (pc = "Failed" /\ ~buttonFound) =>
       /\ OnlyWarns(console, "Dropdown button not found")
       /\ clicks = <<>> /\ waiter = "none" /\ ~interval /\ elapsed = 0
       /\ result = "fulfilled"

\* the entry points that return on a missing element without a word
SilentOnMissing ==
  op = "dateSetValue" \/ (op = "clickButton" /\ revision = "utils_late")

\* C13, as stated: every entry point that locates an element, called while
\* the element is absent, logs a warning naming the failed lookup and returns
\* without a click, a change of value or checked state, an event, a poll or
\* a pause.
C13_NotFoundWarnsEverywhere ==
  /\ FlowsStopOnMissingTrigger
  /\ \A k \in 1..Len(calls) :
       ~elFound => (Untouched(calls[k]) /\ OnlyWarns(calls[k].lines, NotFoundMessage[op]))

\* C13, amended: every entry point, called while its element is absent,
\* returns without a click, a change of value or checked state, an event, a
\* poll or a pause; it logs a warning naming the failed lookup, except
\* dateSetValue (every revision) and the clickButton of the second group of
\* utils.js, which print nothing.
C13_NotFoundHandling ==
  /\ FlowsStopOnMissingTrigger
  /\ \A k \in 1..Len(calls) :
       ~elFound =>
         /\ Untouched(calls[k])
         /\ result \in {"returned", "fulfilled"}
         /\ IF SilentOnMissing THEN calls[k].lines = <<>>
            ELSE OnlyWarns(calls[k].lines, NotFoundMessage[op])

\* clickButton of the second group of utils.js was called on a missing
\* button: nothing was clicked and nothing was printed
C13_Witness ==
  /\ op = "clickButton" /\ revision = "utils_late"
  /\ ~elFound
  /\ Len(calls) = 1
  /\ calls[1].did = <<>>
  /\ console = <<>>
  /\ result = "returned"

\* ------------------------------------------------- claims, single shot
ButtonClicks == { k \in 1..Len(clicks) : clicks[k].target = "button" }

\* a click-select invocation that found its trigger and went past the open
\* action
Opened ==
  \/ pc \in {"Opening", "WaitingForOptions", "Matching", "Clicked", "d_timer"}
  \/ (pc \in {"Failed", "d_done"} /\ buttonFound)

\* C14: in one invocation of click-select with the trigger present the open
\* action is performed exactly once, first of all, and is not repeated after
\* a waiter timeout, a missing Active Surface or a failed match; at most one
\* option is clicked.
C14_SingleShot ==
  /\ Cardinality(OptionClicks) <= 1
  /\ Opened => (ButtonClicks = {1})
  /\ ~Opened => (clicks = <<>>)
  /\ OptionClicks # {} => (pc \in {"Clicked", "d_done"} /\ OptionClicks = {2})

\* the options came, the Active Surface was found, the matcher found nothing:
\* the flow failed with its one click on the trigger
C14_Witness ==
  /\ pc = "Failed"
  /\ waiter = "resolved"
  /\ activeDropdown # 0
  /\ options # <<>>
  /\ match = 0
  /\ clicks = << [target |-> "button", node |-> 0, option |-> 0] >>

\* ------------------------------------------- claims, active surface locator
Listboxes == { n \in 1..Len(dom) : dom[n].listbox }

\* the flow has called getActiveDropdownContainer
Located == pc \in Terminal /\ waiter = "resolved"

\* C15: getActiveDropdownContainer returns null when the document holds no
\* role=listbox element and otherwise the last role=listbox element in
\* document order, however many there are, and leaves the document as it is.
C15_ActiveSurfaceLocator ==
  /\ [](Located =>
         IF Listboxes = {} THEN activeDropdown = 0
         ELSE /\ activeDropdown \in Listboxes
              /\ \A n \in Listboxes : n <= activeDropdown)
  /\ [][(pc = "Matching") => (dom' = dom)]_vars

\* two listboxes, the last of them without any option: it is the one returned
C15_Witness ==
  /\ Located
  /\ Cardinality(Listboxes) = 2
  /\ dom[2].options = <<>>
  /\ activeDropdown = 2

\* ------------------------------------------------------ claims, the waiter
\* C16: waitForElement with a selector that is never satisfied and a timeout
\* T (0 and values that are no multiple of the 100 ms interval included)
\* fails, and fails at a time t, counted in polls, with T <= t <= T + 100.
C16_WaiterTimeoutBound ==
  /\ [](pc = "w_rejected" =>
         (timeout <= elapsed /\ elapsed <= timeout + PollInterval))
  /\ [](pc = "w_resolved" => optionPresent(dom))
  /\ ([](~optionPresent(dom)) => <>(pc = "w_rejected"))

\* a timeout between two polls: the waiter gave up at the poll after it, on a
\* document that never held the element
C16_Witness ==
  /\ pc = "w_rejected"
  /\ timeout = 250
  /\ elapsed = 300
  /\ ~seenEarly
  /\ result = "rejected"

\* the first option element of the document, in document order
IsFirstOption(e) ==
  /\ e[1] \in 1..Len(dom)
  /\ e[2] = 1
  /\ dom[e[1]].options # <<>>
  /\ \A n \in 1..(e[1] - 1) : dom[n].options = <<>>

\* the element has been there without a break since a time before the timeout
PresentInTime == presentSince >= 0 /\ presentSince < timeout

\* C17: if a matching element becomes present in the scope at a delay D less
\* than the timeout and stays, waitForElement resolves with the first
\* matching element of the scope at a time within [D, D + 100 ms] and does
\* not fail.
C17_WaiterSuccessBound ==
  /\ []((pc \in {"w_resolved", "w_rejected"} /\ PresentInTime) =>
         /\ pc = "w_resolved"
         /\ result = "fulfilled"
         /\ presentSince <= elapsed
         /\ elapsed <= presentSince + PollInterval
         /\ IsFirstOption(waited))
  /\ [](pc = "w_pending" /\ PresentInTime => elapsed < presentSince + PollInterval)
  /\ (<>[]PresentInTime => <>(pc = "w_resolved"))

\* the element came at 200 ms, before a timeout of 250 ms, behind a container
\* without options: the poll at 300 ms resolved with it
C17_Witness ==
  /\ pc = "w_resolved"
  /\ timeout = 250
  /\ presentSince = 200
  /\ elapsed = 300
  /\ waited = << 2, 1 >>

\* ------------------------------------------------------ claims, the setters
Positions(did, kind) == { k \in 1..Len(did) : did[k] = kind }

\* C18: fillInputByName(name, value) on a scope that holds the input makes
\* its value the given value and dispatches exactly one input event and
\* exactly one change event on it, input before change; on a scope without
\* the input it logs a not-found warning, changes no value and dispatches no
\* event.
C18_FillInputByName ==
  \A k \in 1..Len(calls) :
    op = "fillInputByName" =>
      IF elFound
      THEN /\ calls[k].valueAfter = calls[k].arg
           /\ Cardinality(Positions(calls[k].did, "input")) = 1
           /\ Cardinality(Positions(calls[k].did, "change")) = 1
           /\ \A i \in Positions(calls[k].did, "input") :
                \A c \in Positions(calls[k].did, "change") : i < c
           /\ calls[k].lines = <<>>
      ELSE /\ Untouched(calls[k])
           /\ OnlyWarns(calls[k].lines, "Input not found")

CheckboxSetters == { "setCheckboxBySelector", "setCheckboxByName" }

\* C19: a checkbox setter called with the checkbox's current checked state
\* clicks nothing and leaves the state as it is; called with the opposite
\* state it clicks exactly once; so on a checkbox that a click toggles, a
\* second call with the same value clicks nothing and leaves the state of the
\* first call: twice is the same state and the same clicks (at most one) as
\* once.
C19_CheckboxIdempotence ==
  (op \in CheckboxSetters /\ elFound) =>
    /\ \A k \in 1..Len(calls) :
         IF calls[k].arg = calls[k].checkedBefore
         THEN calls[k].did = <<>> /\ calls[k].checkedAfter = calls[k].checkedBefore
         ELSE calls[k].did = << "click" >>
    /\ \A k \in 1..(Len(calls) - 1) :
         (toggles /\ calls[k + 1].arg = calls[k].arg) =>
           /\ calls[k].checkedAfter = calls[k].arg
           /\ calls[k + 1].did = <<>>
           /\ calls[k + 1].checkedAfter = calls[k].checkedAfter
           /\ Len(calls[k].did \o calls[k + 1].did) <= 1

\* an unchecked checkbox set to checked twice: one click, then none
C19_Witness ==
  /\ op = "setCheckboxByName" /\ elFound /\ toggles
  /\ Len(calls) = 2
  /\ calls[1].arg = TRUE /\ calls[2].arg = TRUE
  /\ calls[1].checkedBefore = FALSE
  /\ calls[1].did = << "click" >>
  /\ calls[2].did = <<>>
  /\ checked = TRUE

\* --------------------------------------------------- claims, what callers see
\* the operation is over
Over == pc \in {"t_done", "Clicked", "Failed", "d_done", "w_resolved", "w_rejected"}
          \/ calls # <<>>

\* C20: whatever the host page does, no action flow (fill, click-select,
\* type-select in either revision, set-radio, the checkbox setters,
\* click-button) throws or returns a promise that rejects, on a missing
\* element, a timeout or a failed match; only waitForElement's promise can
\* end rejected.
C20_NoErrorReachesCaller ==
  /\ result \in {"rejected", "thrown"} => pc = "w_rejected"
  /\ (Over /\ pc # "w_rejected") => result \in {"returned", "fulfilled"}

\* the click-select flow ran into the waiter's timeout, whose promise
\* rejected, and the caller's promise is fulfilled
C20_Witness ==
  /\ pc = "Failed"
  /\ waiter = "rejected"
  /\ result = "fulfilled"
  /\ Len(clicks) = 1

\* ------------------------------------------------------ claims, no rollback
LastOf(q) == q[Len(q)]

\* what the type-select flow did to the trigger, without its reads and pauses
IsDispatch(e) == e.kind \in {"click", "value", "input", "keydown", "keyup"}
Dispatched == SelectSeq(events, IsDispatch)

\* C21: once click-select has clicked the trigger and then fails (timeout, no
\* Active Surface, no match) it has made no other click and dispatched no
\* event, and no step of a flow changes the document, so what the open
\* action produced stays; a type-select flow never removes a chip and leaves
\* in the trigger the last value it typed, also when it ends with unaccepted
\* candidates.
C21_NoRollback ==
  /\ []((pc = "Failed" /\ buttonFound) =>
         (clicks = << [target |-> "button", node |-> 0, option |-> 0] >>
          /\ events = <<>>))
  /\ [][(dom' # dom) => (pc' = pc /\ clicks' = clicks /\ console' = console)]_vars
  /\ [][(chips' # chips) =>
          (IsPrefix(chips, chips') /\ pc' = pc /\ events' = events
           /\ triggerValue' = triggerValue)]_vars
  /\ []((pc = "t_done" /\ typed # <<>>) =>
         (triggerValue = LastOf(typed)
          /\ LastOf(Dispatched) = [kind |-> "keyup", i |-> Len(typed)]))
  /\ []((pc = "t_done" /\ unacceptedCandidates # <<>>) =>
         (triggerValue = LastOf(typed) /\ triggerValue # <<>>))

\* the options came but no listbox: the flow failed, its click on the trigger
\* is all it did and the document still holds what the host page mounted
C21_Witness ==
  /\ pc = "Failed"
  /\ waiter = "resolved"
  /\ activeDropdown = 0
  /\ clicks = << [target |-> "button", node |-> 0, option |-> 0] >>
  /\ optionPresent(dom)

\* ------------------------------------------------------------------
\* claims, the waiter settles once
\* ------------------------------------------------------------------

Settled == waiter \in {"resolved", "rejected"}

\* C22: in every execution of waitForElement the promise is completed at most
\* once, never both resolved and rejected; the interval is cleared in the
\* step that completes it; and the document is not polled after that step,
\* whatever the host page does afterwards.
C22_SettlesOnce ==
  /\ [][Settled => (waiter' = waiter /\ result' = result /\ waited' = waited)]_vars
  /\ [][(~Settled /\ Settled') => (interval /\ ~interval')]_vars
  /\ [][Settled => (elapsed' = elapsed /\ ~interval')]_vars
  /\ [](Settled <=> pc \in {"w_resolved", "w_rejected"})
  /\ [](waiter = "resolved" <=> result = "fulfilled")
  /\ [](waiter = "rejected" <=> result = "rejected")

\* the waiter resolved with an option the host page has since removed, and
\* stays resolved with its interval cleared
C22_Witness ==
  /\ pc = "w_resolved"
  /\ waiter = "resolved"
  /\ waited # << 0, 0 >>
  /\ ~optionPresent(dom)
  /\ ~interval

\* ------------------------------------------------------------------
\* claims, presence is checked before the deadline
\* ------------------------------------------------------------------

\* a step in which the interval's callback runs
IsPoll == pc = "w_pending" /\ elapsed' # elapsed

\* C23: at each poll the selector is queried first and the elapsed time is
\* compared with the timeout only if nothing matched: a poll that finds a
\* matching element resolves the waiter even when more than the timeout has
\* elapsed, and the waiter fails only at a poll where no element matches and
\* the elapsed time strictly exceeds the timeout.
C23_PresenceBeforeDeadline ==
  /\ [][(IsPoll /\ optionPresent(dom)) =>
          (waiter' = "resolved" /\ waited' = querySelector(dom))]_vars
  /\ [][(IsPoll /\ waiter' = "rejected") =>
          (~optionPresent(dom) /\ elapsed' > timeout)]_vars
  /\ [][(IsPoll /\ ~optionPresent(dom) /\ elapsed' <= timeout) =>
          waiter' = "pending"]_vars
  /\ [][(waiter' # waiter) => (pc = "w_call" \/ IsPoll)]_vars

\* the element came only after the timeout had elapsed, and the next poll
\* resolved with it
C23_Witness ==
  /\ pc = "w_resolved"
  /\ timeout > 0
  /\ presentSince >= timeout
  /\ elapsed > timeout
  /\ ~seenEarly
  /\ waited # << 0, 0 >>

\* ------------------------------------------------------------------
\* claims, the option list of the Matching step
\* ------------------------------------------------------------------

\* the Matching step has run: the waiter resolved and an Active Surface was found
Matched == pc \in {"Clicked", "Failed"} /\ waiter = "resolved" /\ activeDropdown # 0

\* C24: whenever selectFromDropdownOption reaches the Matching step, the list
\* of options re-queried inside the Active Surface holds at least one element,
\* for every arrangement of listbox containers and options in the document.
C24_NonEmptyOptionList == Matched => options # <<>>

\* ------------------------------------------------------------------
\* claims, two calls at once
\* ------------------------------------------------------------------

\* call i clicks its option in this step
ClicksNow(i) == invocation[i].click = <<>> /\ invocation'[i].click # <<>>

\* the other call has been started and has not come to its end
OtherInProgress(i) ==
  \E j \in DOMAIN invocation \ {i} : invocation[j].pc \in {"WaitingForOptions", "d_timer"}

\* the text of option o of container n is the label, case and outer blanks aside
TextIsLabel(n, o, label) == Normalize(dom[n].options[o]) = Normalize(label)

\* C25 as stated: when a second dropdown-select call for a different dropdown
\* is started before the first has clicked its option, each invocation still
\* clicks only an option of the dropdown its own trigger opened, in every
\* interleaving of the two calls' timer and polling callbacks.
C25_OverlapIsolation ==
  [][\A i \in DOMAIN invocation :
       (ClicksNow(i) /\ OtherInProgress(i)) => invocation'[i].click[1].owner = i]_vars

\* C25 as the code has it: selectFromDropdownOption clicks an option of the
\* last role=listbox container the document holds at the poll that resolves
\* its waiter, selectDropdownByLabel the first option of the document that
\* bears the label when its timer fires, whichever call's trigger opened the
\* container; the click is in the call's own dropdown when no other call's
\* dropdown is mounted at that moment.
C25_ClicksLastOrFirst ==
  [][\A i \in DOMAIN invocation :
       ClicksNow(i) =>
         LET c == invocation'[i].click[1]
             label == invocation[i].labelToMatch
         IN /\ c.node \in 1..Len(dom)
            /\ c.option \in 1..Len(dom[c.node].options)
            /\ c.owner = owner[c.node]
            /\ TextIsLabel(c.node, c.option, label)
            /\ \A o \in 1..(c.option - 1) : ~TextIsLabel(c.node, o, label)
            /\ (invocation[i].entry = "selectFromDropdownOption") =>
                  /\ dom[c.node].listbox
                  /\ \A n \in (c.node + 1)..Len(dom) : ~dom[n].listbox
            /\ (invocation[i].entry = "selectDropdownByLabel") =>
                  \A n \in 1..(c.node - 1) :
                    \A o \in 1..Len(dom[n].options) : ~TextIsLabel(n, o, label)
            /\ (\A n \in 1..Len(owner) : owner[n] = i) => c.owner = i]_vars

\* the first call's dropdown is mounted, then the second's; the first call's
\* waiter resolves while the second call is still waiting, and the first call
\* has clicked an option of the second call's dropdown
C25_Witness ==
  /\ pc = "overlap"
  /\ invocation[1].entry = "selectFromDropdownOption"
  /\ invocation[1].pc = "Clicked"
  /\ invocation[1].click # <<>>
  /\ invocation[1].click[1].document = << 1, 2 >>
  /\ invocation[1].click[1].owner = 2
  /\ invocation[2].pc = "WaitingForOptions"

\* ------------------------------------------------------------------
\* claims, verdicts and the final chips
\* ------------------------------------------------------------------

\* the candidates the flow logged as added, in order
LoggedAdded ==
  LET lines == LinesWith("Added")
  IN [k \in 1..Len(lines) |-> candidates[lines[k].i]]

Ended == pc = "t_done" /\ revision = "part_001" /\ triggerFound

\* no candidate is given twice, case aside
DistinctCandidates ==
  \A i, j \in 1..Len(candidates) :
    toLowerCase(candidates[i]) = toLowerCase(candidates[j]) => i = j

\* the re-read of candidate i, 500 ms after its Enter key press
ReReadOf(i) == { k \in 1..Len(checks) : checks[k].phase = "post" /\ checks[k].i = i }

\* C26 as stated: on a host page that updates the Selected-Chip Set at any
\* time after the Enter key press, when a type-select flow ends every
\* candidate recorded as unaccepted is absent from the final Selected-Chip
\* Set and every candidate logged as added is present in it.
C26_VerdictsMatchFinalChips ==
  (Ended /\ DistinctCandidates) =>
    /\ \A k \in 1..Len(unacceptedCandidates) :
         ~pillsInclude(chips, unacceptedCandidates[k])
    /\ \A k \in 1..Len(LoggedAdded) : pillsInclude(chips, LoggedAdded[k])

\* C26 as the code has it: each verdict agrees with the Selected-Chip Set as
\* it was read at that candidate's re-read, 500 ms after its Enter key press:
\* the candidates recorded as unaccepted are those absent at their re-read,
\* the candidates logged as added those present at theirs; what the host page
\* does to the chips after a re-read changes no verdict.
C26_VerdictsMatchReRead ==
  Ended =>
    /\ \A i \in 1..Len(typed) :
         /\ Cardinality(ReReadOf(i)) = 1
         /\ \A k \in ReReadOf(i) :
              /\ pillsInclude(checks[k].pills, candidates[i])
                   <=> (\E l \in 1..Len(console) :
                          console[l].msg = "Added" /\ console[l].i = i)
              /\ ~pillsInclude(checks[k].pills, candidates[i])
                   <=> (\E l \in 1..Len(console) :
                          console[l].msg = "Candidate not accepted" /\ console[l].i = i)
    /\ unacceptedCandidates =
         LET Missed(c) == ~pillsInclude(c.pills, candidates[c.i])
             missed == SelectSeq(PostChecks, Missed)
         IN [k \in 1..Len(missed) |-> candidates[missed[k].i]]

\* a candidate was recorded as unaccepted at its re-read, the host page
\* committed its chip during a later pause, and the flow has ended with the
\* candidate both in the unaccepted list and among the chips
C26_Witness ==
  /\ Ended
  /\ DistinctCandidates
  /\ \E k \in 1..Len(unacceptedCandidates) :
       /\ pillsInclude(chips, unacceptedCandidates[k])
       /\ \E j \in 1..Len(checks) :
            /\ checks[j].phase = "post"
            /\ candidates[checks[j].i] = unacceptedCandidates[k]
            /\ ~pillsInclude(checks[j].pills, unacceptedCandidates[k])

====
